---- MODULE Spec2Model ----
(***************************************************************************)
(* Contract billing model of mobile-companytracker (src/contract.py).      *)
(*                                                                         *)
(* One phone-line contract of one of the three variants (MTMContract,      *)
(* TermContract, PrepaidContract) is driven by the external driver:        *)
(* new_month with a freshly created Bill, bill_call for each call of that  *)
(* month, and finally cancel_contract.                                     *)
(*                                                                         *)
(* Money is counted in thousandths of a currency unit, so that the rates   *)
(* 0.025, 0.05 and 0.1 per minute are the integers 25, 50 and 100, and     *)
(* 300.00 is 300000.  Bill objects live in a heap (the sequence bills);    *)
(* the contract's attribute self.bill is an index into it.                 *)
(*                                                                         *)
(* SpecPeer adds the month-to-month contract of a second phone line, with  *)
(* a Bill of its own.  FilterSpec models the call filters of               *)
(* src/filter.py (CustomerFilter, DurationFilter, LocationFilter) applied  *)
(* to a list of calls with a filter string typed by the user.              *)
(***************************************************************************)
EXTENDS Integers, Sequences, FiniteSets, TLC

\* ---------------------------------------------------------------- bounds
MaxMonth == 2
NumYears == 2
MaxAdvances == 2
MaxCalls == 2
PeerCalls == 1

\* ------------------------------------------------- constants of the code
MTM_MONTHLY_FEE == 50000
TERM_MONTHLY_FEE == 20000
TERM_DEPOSIT == 300000
TERM_MINS == 100
MTM_MINS_COST == 50
TERM_MINS_COST == 100
PREPAID_MINS_COST == 25
PREPAID_THRESHOLD == -10000
PREPAID_TOPUP == 25000

\* ------------------------------------------------------ the driver's data
Months == 1..MaxMonth
Years == 1..NumYears
Periods == [month : Months, year : Years]
\* call durations in seconds: 0 s, 90 s, 20 min, 100 min
Durations == {0, 90, 1200, 6000}
\* the <balance> argument of PrepaidContract.__init__, in thousandths
InitialBalances == {0, 5000, 10000, 40000}

Before(p, q) == p.year < q.year \/ (p.year = q.year /\ p.month < q.month)

\* Python's None for a date attribute, and for self.bill
None == [month |-> 0, year |-> 0]
NoBill == 0

VARIABLES kind, start, end, current, balance, bill, bills, outcome, ret,
          log, initial, last, peer, filt

vars == <<kind, start, end, current, balance, bill, bills, outcome, ret,
          log, initial, last, peer, filt>>

\* ------------------------------------------------------------------ Bill
FreshBill == [fixed_cost |-> 0, free_min |-> 0, billed_min |-> 0,
              min_rate |-> 0, type |-> ""]

set_rates(b, t, r) == [b EXCEPT !.type = t, !.min_rate = r]

add_fixed_cost(b, cost) == [b EXCEPT !.fixed_cost = @ + cost]

add_free_minutes(b, m) == [b EXCEPT !.free_min = @ + m]

add_billed_minutes(b, m) == [b EXCEPT !.billed_min = @ + m]

get_cost(b) == b.min_rate * b.billed_min + b.fixed_cost

\* another phone line's contract, with the Bill the driver created for it
NoPeer == [active |-> FALSE, bill |-> FreshBill, calls |-> 0]

\* no filter has been applied
NoFilter == [op |-> "none", data |-> <<>>, str |-> <<>>, status |-> "idle",
             result |-> <<>>]

CeilMinutes_Floor(d) == d \div 60

\* ceil(call.duration / 60) for a non-negative number of seconds
CeilMinutes(d) == IF d % 60 = 0 THEN d \div 60 ELSE (d \div 60) + 1

\* -------------------------------------------------------------- __init__
InitMTM ==
    /\ kind = "MTM"
    /\ start \in Periods
    /\ end = None
    /\ current = <<0, 0>>
    /\ balance = 0
    /\ initial = 0

InitTerm ==
    /\ kind = "TERM"
    /\ start \in Periods
    /\ end \in {e \in Periods : ~Before(e, start)}
    /\ current = <<start.month, start.year>>
    /\ balance = 0
    /\ initial = 0

InitPrepaid ==
    /\ kind = "PREPAID"
    /\ start \in Periods
    /\ end = None
    /\ current = <<0, 0>>
    /\ initial \in InitialBalances
    /\ balance = -initial

Init ==
    /\ InitMTM \/ InitTerm \/ InitPrepaid
    /\ bill = NoBill
    /\ bills = <<>>
    /\ log = <<>>
    /\ outcome = "none"
    /\ ret = 0
    /\ last = [op |-> "init", month |-> 0, year |-> 0, dur |-> 0]
    /\ peer = NoPeer
    /\ filt = NoFilter

\* ------------------------------------------------------------ the driver
\* The driver advances time: each new_month is for a later (month, year)
\* than the one before, and comes with a Bill it has just created.
CanAdvance(m, y) ==
    /\ outcome = "none"
    /\ Len(bills) < MaxAdvances
    /\ Len(log) > 0 => Before([month |-> log[Len(log)].month,
                                year |-> log[Len(log)].year],
                               [month |-> m, year |-> y])

CanBill ==
    /\ outcome = "none"
    /\ bill # NoBill
    /\ Len(log[bill].durs) < MaxCalls

CanCancel ==
    /\ outcome = "none"
    /\ bill # NoBill

\* the driver's record of a month: its period, the calls billed in it, and
\* whether the advance topped the prepaid balance up
LogMonth(m, y, t) == [month |-> m, year |-> y, durs |-> <<>>, topup |-> t]

Installed_KeepsOldBill(b, m, y, t) ==
    /\ bills' = Append(bills, b)
    /\ bill' = IF bill = NoBill THEN 1 ELSE bill
    /\ log' = Append(log, LogMonth(m, y, t))
    /\ last' = [op |-> "new_month", month |-> m, year |-> y, dur |-> 0]

Installed(b, m, y, t) ==
    /\ bills' = Append(bills, b)
    /\ bill' = Len(bills) + 1
    /\ log' = Append(log, LogMonth(m, y, t))
    /\ last' = [op |-> "new_month", month |-> m, year |-> y, dur |-> 0]

Billed(b, d) ==
    /\ bills' = [bills EXCEPT ![bill] = b]
    /\ log' = [log EXCEPT ![bill].durs = Append(@, d)]
    /\ last' = [op |-> "bill_call", month |-> 0, year |-> 0, dur |-> d]

\* ------------------------------------------------------------- new_month
MTMBill(b) == add_fixed_cost(set_rates(b, "MTM", MTM_MINS_COST),
                             MTM_MONTHLY_FEE)

MTMContract_new_month ==
    \E m \in Months, y \in Years :
        /\ kind = "MTM"
        /\ CanAdvance(m, y)
        /\ Installed(MTMBill(FreshBill), m, y, FALSE)
        /\ UNCHANGED <<peer, filt>>
        /\ UNCHANGED <<kind, start, end, current, balance, outcome, ret,
                       initial>>

IsStartMonth_MonthOnly(m, y) == m = start.month

IsStartMonth(m, y) == m = start.month /\ y = start.year

TermBill(b, m, y) ==
    LET b1 == set_rates(add_fixed_cost(b, TERM_MONTHLY_FEE),
                        "TERM", TERM_MINS_COST)
    IN  IF IsStartMonth(m, y) THEN add_fixed_cost(b1, TERM_DEPOSIT) ELSE b1

TermContract_new_month_MovesStart ==
    \E m \in Months, y \in Years :
        /\ kind = "TERM"
        /\ CanAdvance(m, y)
        /\ Installed(TermBill(FreshBill, m, y), m, y, FALSE)
        /\ current' = <<m, y>>
        /\ start' = [month |-> m, year |-> y]
        /\ UNCHANGED <<peer, filt>>
        /\ UNCHANGED <<kind, end, balance, outcome, ret, initial>>

TermContract_new_month_StaleCurrent ==
    \E m \in Months, y \in Years :
        /\ kind = "TERM"
        /\ CanAdvance(m, y)
        /\ Installed(TermBill(FreshBill, m, y), m, y, FALSE)
        /\ current' = IF IsStartMonth(m, y) THEN <<m, y>> ELSE current
        /\ UNCHANGED <<peer, filt>>
        /\ UNCHANGED <<kind, start, end, balance, outcome, ret, initial>>

TermContract_new_month ==
    \E m \in Months, y \in Years :
        /\ kind = "TERM"
        /\ CanAdvance(m, y)
        /\ Installed(TermBill(FreshBill, m, y), m, y, FALSE)
        /\ current' = <<m, y>>
        /\ UNCHANGED <<peer, filt>>
        /\ UNCHANGED <<kind, start, end, balance, outcome, ret, initial>>

PrepaidTopsUp_AnyMonth(m, y) == balance > PREPAID_THRESHOLD

PrepaidTopsUp(m, y) == balance > PREPAID_THRESHOLD /\ ~IsStartMonth(m, y)

PrepaidBalance_AddsDebt(m, y) ==
    IF PrepaidTopsUp(m, y) THEN balance + PREPAID_TOPUP ELSE balance

PrepaidBalance(m, y) ==
    IF PrepaidTopsUp(m, y) THEN balance - PREPAID_TOPUP ELSE balance

PrepaidBill_ChargesNewBalance(b, m, y) ==
    add_fixed_cost(set_rates(b, "PREPAID", PREPAID_MINS_COST),
                   PrepaidBalance(m, y))

PrepaidBill(b, m, y) ==
    LET b1 == set_rates(b, "PREPAID", PREPAID_MINS_COST)
    IN  IF balance > PREPAID_THRESHOLD
        THEN IF IsStartMonth(m, y)
             THEN add_fixed_cost(b1, balance)
             ELSE add_fixed_cost(b1, PREPAID_TOPUP + PrepaidBalance(m, y))
        ELSE add_fixed_cost(b1, balance)

PrepaidContract_new_month ==
    \E m \in Months, y \in Years :
        /\ kind = "PREPAID"
        /\ CanAdvance(m, y)
        /\ Installed(PrepaidBill(FreshBill, m, y), m, y, PrepaidTopsUp(m, y))
        /\ balance' = PrepaidBalance(m, y)
        /\ UNCHANGED <<peer, filt>>
        /\ UNCHANGED <<kind, start, end, current, outcome, ret, initial>>

\* ------------------------------------------------------------- bill_call
Contract_bill(b, d) == add_billed_minutes(b, CeilMinutes(d))

Contract_bill_call ==
    \E d \in Durations :
        /\ kind = "MTM"
        /\ CanBill
        /\ Billed(Contract_bill(bills[bill], d), d)
        /\ UNCHANGED <<peer, filt>>
        /\ UNCHANGED <<kind, start, end, current, balance, bill, outcome,
                       ret, initial>>

TermBillCall_DropsExcess(b, d) ==
    LET b1 == add_free_minutes(b, CeilMinutes(d))
    IN  IF b1.free_min > TERM_MINS
        THEN [b1 EXCEPT !.free_min = TERM_MINS]
        ELSE b1

TermBillCall_SignSlip(b, d) ==
    LET b1 == add_free_minutes(b, CeilMinutes(d))
    IN  IF b1.free_min > TERM_MINS
        THEN [add_billed_minutes(b1, TERM_MINS - b1.free_min)
                  EXCEPT !.free_min = TERM_MINS]
        ELSE b1

TermBillCall_NoCap(b, d) ==
    LET b1 == add_free_minutes(b, CeilMinutes(d))
    IN  IF b1.free_min > TERM_MINS
        THEN add_billed_minutes(b1, b1.free_min - TERM_MINS)
        ELSE b1

TermBillCall(b, d) ==
    LET b1 == add_free_minutes(b, CeilMinutes(d))
    IN  IF b1.free_min > TERM_MINS
        THEN [add_billed_minutes(b1, b1.free_min - TERM_MINS)
                  EXCEPT !.free_min = TERM_MINS]
        ELSE b1

TermContract_bill_call ==
    \E d \in Durations :
        /\ kind = "TERM"
        /\ CanBill
        /\ Billed(TermBillCall(bills[bill], d), d)
        /\ UNCHANGED <<peer, filt>>
        /\ UNCHANGED <<kind, start, end, current, balance, bill, outcome,
                       ret, initial>>

PrepaidDebit_Floor(d) == (d \div 60) * PREPAID_MINS_COST

PrepaidDebit(d) == CeilMinutes(d) * PREPAID_MINS_COST

PrepaidContract_bill_call ==
    \E d \in Durations :
        /\ kind = "PREPAID"
        /\ CanBill
        /\ Billed(Contract_bill(bills[bill], d), d)
        /\ balance' = balance + PrepaidDebit(d)
        /\ UNCHANGED <<peer, filt>>
        /\ UNCHANGED <<kind, start, end, current, bill, outcome, ret,
                       initial>>

\* ------------------------------------------------------- cancel_contract
Cancelled == last' = [op |-> "cancel_contract", month |-> 0, year |-> 0,
                      dur |-> 0]

Contract_cancel_contract ==
    /\ kind = "MTM"
    /\ CanCancel
    /\ start' = None
    /\ ret' = get_cost(bills[bill])
    /\ outcome' = "returned"
    /\ Cancelled
    /\ UNCHANGED <<peer, filt>>
    /\ UNCHANGED <<kind, end, current, balance, bill, bills, log, initial>>

\* the refund condition of lines 148-152, for an end date e and the tracked
\* period c = [month, year]
TermRefund(e, c) ==
    \/ e.month < c[1] /\ e.year = c[2]
    \/ e.year < c[2]

\* Line 147 sets self.end to None before line 148 reads self.end.month:
\* the attribute access on None raises AttributeError, after start and end
\* have been cleared and before the bill is touched or anything returned.
TermContract_cancel_contract ==
    /\ kind = "TERM"
    /\ CanCancel
    /\ start' = None
    /\ end' = None
    /\ IF end' = None
       THEN /\ outcome' = "raised"
            /\ UNCHANGED <<bills, ret>>
       ELSE LET b == IF TermRefund(end', current)
                     THEN [bills[bill] EXCEPT
                               !.fixed_cost = @ - TERM_DEPOSIT]
                     ELSE bills[bill]
            IN  /\ bills' = [bills EXCEPT ![bill] = b]
                /\ ret' = get_cost(b)
                /\ outcome' = "returned"
    /\ Cancelled
    /\ UNCHANGED <<peer, filt>>
    /\ UNCHANGED <<kind, current, balance, bill, log, initial>>

PrepaidOwed_ForfeitsDebt(bal, b) == IF bal > 0 THEN 0 ELSE get_cost(b)

PrepaidOwed_NoForfeit(bal, b) == get_cost(b)

PrepaidOwed(bal, b) == IF bal < 0 THEN 0 ELSE get_cost(b)

PrepaidContract_cancel_contract ==
    /\ kind = "PREPAID"
    /\ CanCancel
    /\ start' = None
    /\ ret' = PrepaidOwed(balance, bills[bill])
    /\ outcome' = "returned"
    /\ Cancelled
    /\ UNCHANGED <<peer, filt>>
    /\ UNCHANGED <<kind, end, current, balance, bill, bills, log, initial>>

\* ------------------------------------------- a second line's contract
\* The driver also runs a month-to-month contract of another phone line:
\* it gets a Bill of its own and bills its own calls to it.
contractVars == <<kind, start, end, current, balance, bill, bills, outcome,
                  ret, log, initial, last>>

Peer_new_month ==
    /\ ~peer.active
    /\ peer' = [active |-> TRUE, bill |-> MTMBill(FreshBill), calls |-> 0]
    /\ UNCHANGED contractVars
    /\ UNCHANGED filt

\* the calls of the second line: 90 seconds each
PeerDurations == {90}

Peer_bill_call ==
    \E d \in PeerDurations :
        /\ peer.active
        /\ peer.calls < PeerCalls
        /\ peer' = [peer EXCEPT !.bill = Contract_bill(@, d),
                                !.calls = @ + 1]
        /\ UNCHANGED contractVars
        /\ UNCHANGED filt

\* ------------------------------------------------------------------ Next
Next ==
    \/ MTMContract_new_month
    \/ TermContract_new_month
    \/ PrepaidContract_new_month
    \/ Contract_bill_call
    \/ TermContract_bill_call
    \/ PrepaidContract_bill_call
    \/ Contract_cancel_contract
    \/ TermContract_cancel_contract
    \/ PrepaidContract_cancel_contract

Spec == Init /\ [][Next]_vars

NextPeer ==
    \/ Next
    \/ Peer_new_month
    \/ Peer_bill_call

SpecPeer == Init /\ [][NextPeer]_vars

\* =================================================== filters (filter.py)
\* Text is a sequence of characters; "^2" stands for the superscript two,
\* a character that str.isnumeric accepts and int() rejects.  Coordinates
\* are counted in millionths of a degree.
MaxData == 2

MAP_MIN_LONG == -79697878
MAP_MAX_LONG == -79196382
MAP_MIN_LAT == 43576959
MAP_MAX_LAT == 43799568
DURATION_MAX == 999

\* the Customer objects of the dataset: id and phone numbers
Customers ==
    <<[id |-> 1, numbers |-> {"n1", "n2"}],
      [id |-> 2, numbers |-> {"n3"}],
      [id |-> 3, numbers |-> {"n4"}]>>

\* the Call objects of the dataset
Calls ==
    {[src_number |-> "n1", dst_number |-> "n3", duration |-> 30,
      src_loc |-> <<-79500000, 43650000>>,
      dst_loc |-> <<-79400000, 43620000>>],
     [src_number |-> "n3", dst_number |-> "n2", duration |-> 60,
      src_loc |-> <<-79600000, 43650000>>,
      dst_loc |-> <<-79650000, 43580000>>],
     [src_number |-> "n4", dst_number |-> "n3", duration |-> 90,
      src_loc |-> <<-79500000, 43750000>>,
      dst_loc |-> <<-79400000, 43620000>>],
     [src_number |-> "n3", dst_number |-> "n3", duration |-> 6000,
      src_loc |-> <<-79250000, 43750000>>,
      dst_loc |-> <<-79650000, 43580000>>]}

DataLists == UNION {[1..n -> Calls] : n \in 0..MaxData}

CustomerStrings ==
    {<<"1">>,
     <<"2">>,
     <<"3">>,
     <<"9">>,
     <<"0", "1">>,
     <<"^2">>,
     <<"1", "a">>,
     <<>>}

DurationStrings ==
    {<<"G">>,
     <<"L">>,
     <<"G", "6", "0">>,
     <<"L", "6", "0">>,
     <<"G", "0", "9", "0">>,
     <<"L", "1", "2", "a">>,
     <<"G", "1", "0", "0", "0">>,
     <<"X", "6", "0">>,
     <<"G", "a", "b">>,
     <<"G", "-", "5">>,
     <<"6", "0">>}

LocationStrings ==
    {<<"-", "7", "9", ".", "6", ",", " ", "4", "3", ".", "6", ",",
       " ", "-", "7", "9", ".", "3", ",", " ", "4", "3", ".", "7">>,
     <<"-", "7", "9", ".", "3", ",", " ", "4", "3", ".", "6", ",",
       " ", "-", "7", "9", ".", "2", ",", " ", "4", "3", ".", "7">>,
     <<"-", "8", "0", ".", "0", ",", " ", "4", "3", ".", "6", ",",
       " ", "-", "7", "9", ".", "3", ",", " ", "4", "3", ".", "7">>,
     <<"-", "7", "9", ".", "6", ",", " ", "4", "3", ".", "6", ",",
       " ", "-", "7", "9", ".", "3", ",", " ", "4", "4", ".", "7">>,
     <<"-", "7", "9", ".", "6", ",", " ", "4", "3", ".", "6">>,
     <<"-", "7", "9", ".", "6", ",", " ", "4", "x", ".", "6", ",",
       " ", "-", "7", "9", ".", "3", ",", " ", "4", "3", ".", "7">>,
     <<"-", "7", "9", ".", "6", "0", ",", " ", "4", "3", ".", "6",
       "0", ",", " ", "-", "7", "9", ".", "3", "0", ",", " ", "4",
       "3", ".", "7", "0">>}

FilterStrings == CustomerStrings \cup DurationStrings \cup LocationStrings

\* ------------------------------------------------------- str, int, float
DigitChars == <<"0", "1", "2", "3", "4", "5", "6", "7", "8", "9">>

Digits == {DigitChars[i] : i \in 1..10}

DigitVal(c) == (CHOOSE i \in 1..10 : DigitChars[i] = c) - 1

Letters == {"G", "L", "X", "a", "b", "x"}

\* str.isnumeric(): not empty, and every character is numeric
isnumeric(s) == Len(s) > 0 /\ \A i \in 1..Len(s) : s[i] \in Digits \cup {"^2"}

\* str.isalpha(): not empty, and every character is a letter
isalpha(s) == Len(s) > 0 /\ \A i \in 1..Len(s) : s[i] \in Letters

Min(a, b) == IF a < b THEN a ELSE b

\* s[a:b] and s[a:] with 0 <= a <= b
Slice(s, a, b) == SubSeq(s, a + 1, Min(b, Len(s)))

SliceFrom(s, a) == SubSeq(s, a + 1, Len(s))

RECURSIVE lstrip(_)
lstrip(s) == IF s # <<>> /\ Head(s) = " " THEN lstrip(Tail(s)) ELSE s

RECURSIVE rstrip(_)
rstrip(s) ==
    IF s # <<>> /\ s[Len(s)] = " " THEN rstrip(SubSeq(s, 1, Len(s) - 1))
    ELSE s

strip(s) == rstrip(lstrip(s))

RECURSIVE DigitsValue(_)
DigitsValue(s) ==
    IF s = <<>> THEN 0
    ELSE 10 * DigitsValue(SubSeq(s, 1, Len(s) - 1)) + DigitVal(s[Len(s)])

RECURSIVE Pow10(_)
Pow10(n) == IF n = 0 THEN 1 ELSE 10 * Pow10(n - 1)

Signed(t) == t # <<>> /\ Head(t) \in {"+", "-"}

Unsigned(t) == IF Signed(t) THEN Tail(t) ELSE t

SignOf(t) == IF t # <<>> /\ Head(t) = "-" THEN -1 ELSE 1

\* int(s): ok is FALSE where Python raises ValueError
int(s) ==
    LET t == strip(s)
        body == Unsigned(t)
        ok == body # <<>> /\ \A i \in 1..Len(body) : body[i] \in Digits
    IN  [ok |-> ok, val |-> IF ok THEN SignOf(t) * DigitsValue(body) ELSE 0]

\* float(s) in millionths, for literals of at most six decimals: ok is
\* FALSE where Python raises ValueError
float(s) ==
    LET t == strip(s)
        body == Unsigned(t)
        dots == {i \in 1..Len(body) : body[i] = "."}
        dot == IF dots = {} THEN Len(body) + 1 ELSE CHOOSE i \in dots : TRUE
        whole == SubSeq(body, 1, dot - 1)
        frac == SubSeq(body, dot + 1, Len(body))
        ok == /\ Cardinality(dots) <= 1
              /\ Len(whole) + Len(frac) > 0
              /\ Len(frac) <= 6
              /\ \A i \in 1..Len(body) : body[i] \in Digits \cup {"."}
    IN  [ok |-> ok,
         val |-> IF ok
                 THEN SignOf(t) * (DigitsValue(whole) * 1000000
                        + DigitsValue(frac) * Pow10(6 - Len(frac)))
                 ELSE 0]

Returned(l) == [status |-> "returned", result |-> l]

Raised == [status |-> "raised", result |-> <<>>]

\* ------------------------------------------------- CustomerFilter.apply
RECURSIVE CustomerNumbers(_, _, _)
\* the loop of lines 104-108: the numbers of the last customer whose id
\* is n, starting from num
CustomerNumbers(customers, n, num) ==
    IF customers = <<>> THEN num
    ELSE CustomerNumbers(Tail(customers), n,
                         IF Head(customers).id = n
                         THEN Head(customers).numbers ELSE num)

CustomerKeeps(call, num) ==
    call.src_number \in num \/ call.dst_number \in num

CustomerFilter(customers, data, s) ==
    IF ~isnumeric(s) THEN Returned(data)
    ELSE IF customers # <<>> /\ ~int(s).ok THEN Raised
    ELSE LET num == CustomerNumbers(customers, int(s).val, {})
             data1 == SelectSeq(data, LAMBDA c : CustomerKeeps(c, num))
         IN  IF data1 = <<>> THEN Returned(data) ELSE Returned(data1)

\* ------------------------------------------------- DurationFilter.apply
RECURSIVE DurationLoop(_, _, _, _)
\* the loop of lines 149-160 over the calls left, with data1 so far
DurationLoop(left, data1, data, s) ==
    IF left = <<>> THEN Returned(data1)
    ELSE LET n == int(SliceFrom(s, 1))
             call == Head(left)
         IN  IF ~n.ok THEN Raised
             ELSE IF 0 <= n.val /\ n.val <= DURATION_MAX
             THEN IF s[1] = "G"
                  THEN DurationLoop(Tail(left),
                           IF call.duration > n.val
                           THEN Append(data1, call) ELSE data1, data, s)
                  ELSE IF s[1] = "L"
                  THEN DurationLoop(Tail(left),
                           IF call.duration < n.val
                           THEN Append(data1, call) ELSE data1, data, s)
                  ELSE Returned(data)
             ELSE Returned(data)

DurationFilter(customers, data, s) ==
    IF isalpha(SliceFrom(s, 1)) \/ Len(s) = 0 THEN Returned(data)
    ELSE DurationLoop(data, <<>>, data, s)

\* ------------------------------------------------- LocationFilter.apply
\* the condition of lines 203-206, evaluated left to right: "raise" where
\* a float() that is reached raises ValueError
LocationInMap(s) ==
    LET lowLong == float(Slice(s, 0, 5))
        upLong == float(Slice(s, 13, 18))
        lowLat == float(Slice(s, 7, 11))
        upLat == float(SliceFrom(s, 20))
    IN  IF ~lowLong.ok THEN "raise"
        ELSE IF ~(MAP_MIN_LONG < lowLong.val) THEN "false"
        ELSE IF ~upLong.ok THEN "raise"
        ELSE IF ~(upLong.val < MAP_MAX_LONG) THEN "false"
        ELSE IF ~lowLat.ok THEN "raise"
        ELSE IF ~(MAP_MIN_LAT < lowLat.val) THEN "false"
        ELSE IF ~upLat.ok THEN "raise"
        ELSE IF upLat.val < MAP_MAX_LAT THEN "true" ELSE "false"

LongIn(loc, s) ==
    /\ float(Slice(s, 0, 5)).val < loc[1]
    /\ loc[1] < float(Slice(s, 13, 18)).val

LatIn(loc, s) ==
    /\ float(Slice(s, 7, 11)).val < loc[2]
    /\ loc[2] < float(SliceFrom(s, 20)).val

LocationKeeps_BothEnds(call, s) ==
    (IF LongIn(call.src_loc, s) /\ LatIn(call.src_loc, s)
     THEN <<call>> ELSE <<>>)
    \o (IF LongIn(call.dst_loc, s) /\ LatIn(call.dst_loc, s)
        THEN <<call>> ELSE <<>>)

\* lines 208-217: what one call adds to data1
LocationKeeps(call, s) ==
    IF LongIn(call.src_loc, s)
    THEN IF LatIn(call.src_loc, s) THEN <<call>> ELSE <<>>
    ELSE IF LongIn(call.dst_loc, s)
    THEN IF LatIn(call.dst_loc, s) THEN <<call>> ELSE <<>>
    ELSE <<>>

RECURSIVE LocationLoop(_, _)
LocationLoop(data, s) ==
    IF data = <<>> THEN <<>>
    ELSE LocationKeeps(Head(data), s) \o LocationLoop(Tail(data), s)

LocationFilter(customers, data, s) ==
    LET inMap == LocationInMap(s)
        data1 == IF inMap = "true" THEN LocationLoop(data, s) ELSE <<>>
    IN  IF inMap = "raise" THEN Raised
        ELSE IF data1 = <<>> THEN Returned(data) ELSE Returned(data1)

\* ------------------------------------------------------- applying filters
Applied(op, r, s) ==
    filt' = [op |-> op, data |-> filt.data, str |-> s,
             status |-> r.status, result |-> r.result]

CustomerFilter_apply ==
    \E s \in FilterStrings :
        /\ filt.status = "idle"
        /\ Applied("customer", CustomerFilter(Customers, filt.data, s), s)
        /\ UNCHANGED contractVars
        /\ UNCHANGED peer

DurationFilter_apply ==
    \E s \in FilterStrings :
        /\ filt.status = "idle"
        /\ Applied("duration", DurationFilter(Customers, filt.data, s), s)
        /\ UNCHANGED contractVars
        /\ UNCHANGED peer

LocationFilter_apply ==
    \E s \in FilterStrings :
        /\ filt.status = "idle"
        /\ Applied("location", LocationFilter(Customers, filt.data, s), s)
        /\ UNCHANGED contractVars
        /\ UNCHANGED peer

\* the filters work on the calls of the dataset; no contract is involved
FilterInit ==
    /\ filt \in [op : {"none"}, data : DataLists, str : {<<>>},
                 status : {"idle"}, result : {<<>>}]
    /\ kind = "MTM"
    /\ start = None
    /\ end = None
    /\ current = <<0, 0>>
    /\ balance = 0
    /\ initial = 0
    /\ bill = NoBill
    /\ bills = <<>>
    /\ log = <<>>
    /\ outcome = "none"
    /\ ret = 0
    /\ last = [op |-> "init", month |-> 0, year |-> 0, dur |-> 0]
    /\ peer = NoPeer

FilterNext ==
    \/ CustomerFilter_apply
    \/ DurationFilter_apply
    \/ LocationFilter_apply

FilterSpec == FilterInit /\ [][FilterNext]_vars

TypeOK ==
    /\ kind \in {"MTM", "TERM", "PREPAID"}
    /\ start \in Periods \cup {None}
    /\ end \in Periods \cup {None}
    /\ bill \in 0..Len(bills)
    /\ Len(log) = Len(bills)
    /\ outcome \in {"none", "returned", "raised"}

\* ================================================================ claims
CancelStep == last.op # "cancel_contract" /\ last'.op = "cancel_contract"

NewMonthStep == bill' # bill

BillCallStep == last'.op = "bill_call"

\* C1: cancelling a Term contract that has a current bill returns the
\* bill's total, after taking the 300 deposit off the bill's fixed cost if
\* and only if (end.month < current.month and end.year = current.year) or
\* end.year < current.year; otherwise the fixed cost is untouched.
C1_TermRefundPolicy ==
    [][(kind = "TERM" /\ CancelStep) =>
          LET refund == \/ end.month < current[1] /\ end.year = current[2]
                        \/ end.year < current[2]
              owed == IF refund THEN bills[bill].fixed_cost - TERM_DEPOSIT
                                ELSE bills[bill].fixed_cost
          IN  /\ outcome' = "returned"
              /\ bills'[bill].fixed_cost = owed
              /\ ret' = get_cost(bills'[bill])]_vars

\* C2: for every variant, cancel_contract on a contract with a current bill
\* completes without raising, leaves start cleared and returns an amount;
\* for MonthToMonth the amount is the current bill's total cost.
C2_CancelCompletes ==
    last.op = "cancel_contract" =>
        /\ outcome = "returned"
        /\ start = None
        /\ ret \in Int
        /\ kind = "MTM" => ret = get_cost(bills[bill])

\* C3 as stated: a Prepaid new_month for a month other than the start month
\* with balance > -10 increases the balance by 25 and charges the new
\* balance as the fresh bill's fixed cost.
C3_TopUpIncreasesBalance ==
    [][(kind = "PREPAID" /\ NewMonthStep /\ balance > -10000
        /\ ~(last'.month = start.month /\ last'.year = start.year)) =>
          /\ balance' = balance + 25000
          /\ bills'[bill'].fixed_cost = balance']_vars

\* C3 amended: in that case the balance goes down by 25 (25 of credit is
\* loaded) and the fixed cost of the fresh bill is the new balance plus 25,
\* which is the balance before the top-up.
C3_TopUpLoadsCredit ==
    [][(kind = "PREPAID" /\ NewMonthStep /\ balance > -10000
        /\ ~(last'.month = start.month /\ last'.year = start.year)) =>
          /\ balance' = balance - 25000
          /\ bills'[bill'].fixed_cost = balance' + 25000
          /\ bills'[bill'].fixed_cost = balance]_vars

C3_Witness ==
    /\ kind = "PREPAID"
    /\ last.op = "new_month"
    /\ ~(last.month = start.month /\ last.year = start.year)
    /\ log[bill].topup
    /\ balance + 25000 > -10000
    /\ bills[bill].fixed_cost = balance + 25000

\* C4: a Prepaid new_month with balance <= -10, or with balance > -10 in
\* the start month, charges exactly the current balance as the fresh
\* bill's fixed cost and leaves the balance unchanged.
C4_NoTopUp ==
    [][(kind = "PREPAID" /\ NewMonthStep
        /\ \/ balance <= -10000
           \/ balance > -10000 /\ last'.month = start.month
                               /\ last'.year = start.year) =>
          /\ bills'[bill'].fixed_cost = balance
          /\ balance' = balance]_vars

C4_Witness ==
    /\ kind = "PREPAID"
    /\ last.op = "new_month"
    /\ last.month = start.month /\ last.year = start.year
    /\ balance > -10000
    /\ balance < 0
    /\ bills[bill].fixed_cost = balance

\* C5: cancelling a Prepaid contract returns 0 whenever the balance is
\* negative, whatever the bill's total, and the current bill's total cost
\* whenever the balance is >= 0.
C5_PrepaidOwed ==
    (kind = "PREPAID" /\ last.op = "cancel_contract") =>
        /\ balance < 0 => ret = 0
        /\ balance >= 0 =>
               ret = bills[bill].fixed_cost
                       + bills[bill].billed_min * PREPAID_MINS_COST

C5_Witness ==
    /\ kind = "PREPAID"
    /\ last.op = "cancel_contract"
    /\ balance < 0
    /\ get_cost(bills[bill]) > 0
    /\ ret = 0

C5_WitnessOwing ==
    /\ kind = "PREPAID"
    /\ last.op = "cancel_contract"
    /\ balance >= 0
    /\ ret > 0

\* the ceiling of d / 60, by its defining property
Ceil60(d) ==
    CHOOSE n \in (d \div 60)..((d \div 60) + 1) :
        60 * n >= d /\ 60 * (n - 1) < d

RECURSIVE SumCeil(_)
SumCeil(durs) ==
    IF durs = <<>> THEN 0 ELSE Ceil60(Head(durs)) + SumCeil(Tail(durs))

RECURSIVE TotalCeil(_)
TotalCeil(months) ==
    IF months = <<>> THEN 0
    ELSE SumCeil(Head(months).durs) + TotalCeil(Tail(months))

NoTopUpYet == \A i \in 1..Len(log) : ~log[i].topup

\* C6: each Prepaid bill_call of d seconds adds ceil(d/60) billed minutes
\* to the current bill and ceil(d/60) x 0.025 to the balance, leaving the
\* bill's fixed cost and free minutes unchanged; as long as no top-up has
\* happened, balance = -(initial top-up) + 0.025 x (sum of ceil(d_i/60))
\* over all calls since creation.
C6_PrepaidBillCall ==
    /\ [][(kind = "PREPAID" /\ BillCallStep) =>
            LET n == Ceil60(last'.dur)
            IN  /\ bills'[bill].billed_min = bills[bill].billed_min + n
                /\ balance' = balance + n * 25
                /\ bills'[bill].fixed_cost = bills[bill].fixed_cost
                /\ bills'[bill].free_min = bills[bill].free_min]_vars
    /\ []((kind = "PREPAID" /\ NoTopUpYet) =>
            balance = (0 - initial) + 25 * TotalCeil(log))

C6_Witness ==
    /\ kind = "PREPAID"
    /\ initial = 40000
    /\ last.op = "bill_call"
    /\ log[bill].durs = <<1200>>
    /\ NoTopUpYet
    /\ bills[bill].billed_min = 20
    /\ balance = -39500

\* C7: for a MonthToMonth contract the current bill has fixed cost 50.00,
\* rate 0.05, no free minutes, and billed minutes equal to the sum of
\* ceil(d_i/60) over the month's calls; each bill_call adds exactly
\* ceil(d/60) billed minutes (0 for d = 0, 2 for d = 90).
C7_MTMBill ==
    /\ [][(kind = "MTM" /\ BillCallStep) =>
            /\ bills'[bill].billed_min =
                   bills[bill].billed_min + Ceil60(last'.dur)
            /\ last'.dur = 0 =>
                   bills'[bill].billed_min = bills[bill].billed_min
            /\ last'.dur = 90 =>
                   bills'[bill].billed_min = bills[bill].billed_min + 2]_vars
    /\ []((kind = "MTM" /\ bill # NoBill) =>
            /\ bills[bill].fixed_cost = 50000
            /\ bills[bill].min_rate = 50
            /\ bills[bill].free_min = 0
            /\ bills[bill].billed_min = SumCeil(log[bill].durs))

C7_Witness ==
    /\ kind = "MTM"
    /\ last.op = "bill_call"
    /\ log[bill].durs = <<90>>
    /\ bills[bill].billed_min = 2
    /\ get_cost(bills[bill]) = 50100

\* C8 as stated: for a Term contract and every sequence of calls billed in
\* one month, billed minutes <= (sum of ceil(d_i/60)) - 100 and free
\* minutes <= 100.
C8_BilledBelowExcess ==
    (kind = "TERM" /\ bill # NoBill /\ Len(log[bill].durs) > 0) =>
        /\ bills[bill].billed_min <= SumCeil(log[bill].durs) - 100
        /\ bills[bill].free_min <= 100

\* C8 amended: billed minutes <= max(0, (sum of ceil(d_i/60)) - 100) and
\* free minutes <= 100.
C8_BilledWithinExcess ==
    (kind = "TERM" /\ bill # NoBill) =>
        LET excess == SumCeil(log[bill].durs) - 100
        IN  /\ bills[bill].billed_min <= IF excess > 0 THEN excess ELSE 0
            /\ bills[bill].free_min <= 100

C8_Witness ==
    /\ kind = "TERM"
    /\ last.op = "bill_call"
    /\ SumCeil(log[bill].durs) > 100
    /\ bills[bill].free_min = 100
    /\ bills[bill].billed_min > 0

C8_WitnessUnderAllowance ==
    /\ kind = "TERM"
    /\ last.op = "bill_call"
    /\ SumCeil(log[bill].durs) \in 1..99
    /\ bills[bill].billed_min = 0

LoggedStart(i) == log[i].month = start.month /\ log[i].year = start.year

DepositBills == {i \in 1..Len(bills) : bills[i].fixed_cost >= 300000}

\* the advances have gone past the start month: as months only advance,
\* no later new_month can be for the start (month, year)
PastStart ==
    /\ Len(log) > 0
    /\ Before(start, [month |-> log[Len(log)].month,
                      year |-> log[Len(log)].year])

\* C9 as stated: over a Term contract's life the 300 deposit is added to a
\* bill exactly once, and only to the bill of the start (month, year),
\* which gets fixed cost 320.00 while every other bill gets 20.00.
C9_DepositExactlyOnce ==
    kind = "TERM" =>
        /\ outcome = "none" =>
               \A i \in 1..Len(bills) :
                   bills[i].fixed_cost =
                       IF LoggedStart(i) THEN 320000 ELSE 20000
        /\ (outcome = "none" /\ PastStart) => Cardinality(DepositBills) = 1

\* C9 amended: the deposit is added at most once over the contract's life
\* (exactly once when one of the new_month calls is for the start
\* (month, year), never otherwise), and only to the bill of the start
\* (month, year): that bill gets 320.00, every other bill 20.00.
C9_DepositAtMostOnce ==
    kind = "TERM" =>
        /\ outcome = "none" =>
               \A i \in 1..Len(bills) :
                   bills[i].fixed_cost =
                       IF LoggedStart(i) THEN 320000 ELSE 20000
        /\ Cardinality(DepositBills) <= 1
        /\ outcome = "none" =>
               (Cardinality(DepositBills) = 1
                    <=> \E i \in 1..Len(bills) : LoggedStart(i))

C9_Witness ==
    /\ kind = "TERM"
    /\ outcome = "none"
    /\ Len(bills) = 2
    /\ LoggedStart(1)
    /\ bills[1].fixed_cost = 320000
    /\ bills[2].fixed_cost = 20000

\* C10 as stated: for every variant, from the fresh bill handed to
\* new_month through the bill_calls of the month, the bill's billed
\* minutes and fixed cost never decrease from one step to the next.
C10_NeverDecrease ==
    [][/\ NewMonthStep =>
            /\ bills'[bill'].fixed_cost >= 0
            /\ bills'[bill'].billed_min >= 0
       /\ (BillCallStep /\ ~NewMonthStep) =>
            /\ bills'[bill].fixed_cost >= bills[bill].fixed_cost
            /\ bills'[bill].billed_min >= bills[bill].billed_min]_vars

\* C10 amended: billed minutes never decrease for any variant and fixed
\* cost never decreases for MonthToMonth and Term contracts or in any
\* bill_call; a Prepaid new_month sets the fresh bill's fixed cost to the
\* balance held on entry, which is below the fresh bill's 0 whenever that
\* balance is negative.
C10_DecreaseOnlyPrepaidAdvance ==
    [][/\ NewMonthStep =>
            /\ bills'[bill'].billed_min >= 0
            /\ kind # "PREPAID" => bills'[bill'].fixed_cost >= 0
            /\ kind = "PREPAID" => bills'[bill'].fixed_cost = balance
       /\ (BillCallStep /\ ~NewMonthStep) =>
            /\ bills'[bill].fixed_cost >= bills[bill].fixed_cost
            /\ bills'[bill].billed_min >= bills[bill].billed_min]_vars

C10_Witness ==
    /\ kind = "PREPAID"
    /\ last.op = "new_month"
    /\ bills[bill].fixed_cost < 0
    /\ bills[bill].billed_min = 0

\* C11: new_month and bill_call never change the contract's start date,
\* nor a Term contract's end date; start is cleared only by
\* cancel_contract, after which the contract is closed (start cleared).
C11_StartImmutable ==
    /\ [][/\ last'.op \in {"new_month", "bill_call"} =>
                start' = start /\ end' = end
          /\ start' # start =>
                CancelStep /\ start # None /\ start' = None]_vars
    /\ [](last.op = "cancel_contract" <=> start = None)

C11_Witness ==
    /\ kind = "TERM"
    /\ last.op = "bill_call"
    /\ Len(bills) = 2
    /\ start \in Periods
    /\ end \in Periods
    /\ <<start.month, start.year>> # current

C11_WitnessClosed ==
    /\ last.op = "cancel_contract"
    /\ start = None

\* C17: for a Term contract, with T the sum of ceil(d_i/60) over the calls
\* billed so far in the month (in whatever order), the bill has free
\* minutes = min(T, 100) and billed minutes = max(0, T - 100), so that
\* free + billed = T after every call.
C17_TermAggregateCap ==
    (kind = "TERM" /\ bill # NoBill) =>
        LET T == SumCeil(log[bill].durs)
        IN  /\ bills[bill].free_min = IF T < 100 THEN T ELSE 100
            /\ bills[bill].billed_min = IF T > 100 THEN T - 100 ELSE 0
            /\ bills[bill].free_min + bills[bill].billed_min = T

C17_Witness ==
    /\ kind = "TERM"
    /\ last.op = "bill_call"
    /\ log[bill].durs = <<6000, 1200>>
    /\ bills[bill].free_min = 100
    /\ bills[bill].billed_min = 20

\* C18: a Term contract's tracked current period is the start
\* (month, year) before any new_month, the (month, year) of the most
\* recent new_month after every new_month (start month or not), and is
\* left unchanged by bill_call.
C18_CurrentPeriod ==
    /\ []((kind = "TERM" /\ outcome = "none") =>
            IF Len(log) = 0
            THEN current = <<start.month, start.year>>
            ELSE current = <<log[Len(log)].month, log[Len(log)].year>>)
    /\ [][(kind = "TERM" /\ last'.op = "new_month" /\ bill' # bill) =>
            current' = <<last'.month, last'.year>>]_vars
    /\ [][(kind = "TERM" /\ BillCallStep) => current' = current]_vars

C18_Witness ==
    /\ kind = "TERM"
    /\ last.op = "new_month"
    /\ start \in Periods
    /\ ~(last.month = start.month /\ last.year = start.year)
    /\ current = <<last.month, last.year>>

\* C19: for a Prepaid contract, after new_month and after every bill_call
\* of the month, the bill's total cost (fixed cost + billed minutes x
\* 0.025) equals the balance in a month whose advance made no top-up, and
\* the balance + 25 in a month whose advance made the top-up.
C19_TotalTracksBalance ==
    (kind = "PREPAID" /\ bill # NoBill) =>
        bills[bill].fixed_cost + bills[bill].billed_min * 25
            = balance + (IF log[bill].topup THEN 25000 ELSE 0)

C19_Witness ==
    /\ kind = "PREPAID"
    /\ last.op = "bill_call"
    /\ log[bill].topup
    /\ bills[bill].billed_min > 0
    /\ get_cost(bills[bill]) = balance + 25000

\* C20: the amount returned by a Prepaid cancel_contract is never
\* negative, whatever the initial top-up, months and calls.
C20_OwedNotNegative ==
    (kind = "PREPAID" /\ last.op = "cancel_contract") => ret >= 0

C20_Witness ==
    /\ kind = "PREPAID"
    /\ last.op = "cancel_contract"
    /\ outcome = "returned"
    /\ balance < 0
    /\ get_cost(bills[bill]) < 0
    /\ ret = 0

\* C12: the fresh bill installed by new_month becomes the contract's
\* current bill, and every later bill_call and cancel_contract reads and
\* modifies only it: the bills of earlier months and the bill of another
\* contract are left unchanged by every later operation.
C12_OnlyCurrentBill ==
    /\ [](bill = Len(bills))
    /\ [][/\ Len(bills') >= Len(bills)
          /\ \A i \in 1..Len(bills) : i # bill' => bills'[i] = bills[i]
          /\ NewMonthStep =>
                /\ Len(bills') = Len(bills) + 1
                /\ bill' = Len(bills')
          /\ contractVars' # contractVars => peer' = peer
          /\ peer' # peer => (bills' = bills /\ bill' = bill)]_vars

C12_Witness ==
    /\ Len(bills) = 2
    /\ last.op = "bill_call"
    /\ bills[1].billed_min > 0
    /\ bills[2].billed_min > 0
    /\ bills[1].billed_min # bills[2].billed_min
    /\ peer.active
    /\ peer.bill.billed_min > 0

\* ------------------------------------------- what the filters are to do
AllDecimal(s) == Len(s) > 0 /\ \A i \in 1..Len(s) : s[i] \in Digits

CustomerIds == {Customers[i].id : i \in 1..Len(Customers)}

\* a valid customer ID
ValidCustomerString(s) == AllDecimal(s) /\ DigitsValue(s) \in CustomerIds

\* "Lxxx" or "Gxxx"
ValidDurationString(s) ==
    /\ Len(s) \in 2..4
    /\ s[1] \in {"G", "L"}
    /\ AllDecimal(SubSeq(s, 2, Len(s)))

RECURSIVE SplitCommaSpace(_)
\* the parts of s between the separators ", "
SplitCommaSpace(s) ==
    LET seps == {i \in 1..(Len(s) - 1) : s[i] = "," /\ s[i + 1] = " "}
    IN  IF seps = {} THEN <<s>>
        ELSE LET i == CHOOSE j \in seps : \A k \in seps : j <= k
             IN  <<SubSeq(s, 1, i - 1)>>
                     \o SplitCommaSpace(SubSeq(s, i + 2, Len(s)))

Coordinate(part) ==
    /\ Len(part) > 0
    /\ \A i \in 1..Len(part) : part[i] \in Digits \cup {".", "-"}
    /\ float(part).ok

\* the rectangle "lowerLong, lowerLat, upperLong, upperLat" of a string
Rectangle(s) ==
    LET parts == SplitCommaSpace(s)
    IN  [lowLong |-> float(parts[1]).val, lowLat |-> float(parts[2]).val,
         upLong |-> float(parts[3]).val, upLat |-> float(parts[4]).val]

\* four coordinates within the map boundaries
ValidLocationString(s) ==
    LET parts == SplitCommaSpace(s)
    IN  /\ Len(parts) = 4
        /\ \A i \in 1..4 : Coordinate(parts[i])
        /\ MAP_MIN_LONG <= Rectangle(s).lowLong
        /\ Rectangle(s).lowLong <= Rectangle(s).upLong
        /\ Rectangle(s).upLong <= MAP_MAX_LONG
        /\ MAP_MIN_LAT <= Rectangle(s).lowLat
        /\ Rectangle(s).lowLat <= Rectangle(s).upLat
        /\ Rectangle(s).upLat <= MAP_MAX_LAT

ValidFilterString(op, s) ==
    \/ op = "customer" /\ ValidCustomerString(s)
    \/ op = "duration" /\ ValidDurationString(s)
    \/ op = "location" /\ ValidLocationString(s)

\* C13: for each of the three filters, apply with an invalid filter string
\* (empty, wrong prefix, "G", "L12a", malformed or out-of-map coordinates)
\* never raises and returns the original data list unchanged.
C13_InvalidReturnsData ==
    (filt.status # "idle" /\ ~ValidFilterString(filt.op, filt.str)) =>
        /\ filt.status = "returned"
        /\ filt.result = filt.data

RECURSIVE IsSubsequence(_, _)
IsSubsequence(a, b) ==
    IF a = <<>> THEN TRUE
    ELSE IF b = <<>> THEN FALSE
    ELSE IF Head(a) = Head(b) THEN IsSubsequence(Tail(a), Tail(b))
    ELSE IsSubsequence(a, Tail(b))

\* C14: the list returned by apply is a subsequence of data: every
\* returned call occurs in data, none more often than in data, and in the
\* same relative order.
C14_ResultIsSubsequence ==
    filt.status = "returned" => IsSubsequence(filt.result, filt.data)

C14_Witness ==
    /\ filt.op = "location"
    /\ filt.status = "returned"
    /\ Len(filt.data) = 2
    /\ Len(filt.result) = 1
    /\ filt.result[1] = filt.data[2]
    /\ filt.data[1] # filt.data[2]

C14_WitnessRepeated ==
    /\ filt.op = "duration"
    /\ filt.status = "returned"
    /\ Len(filt.data) = 2
    /\ filt.data[1] = filt.data[2]
    /\ filt.result = filt.data
    /\ ValidDurationString(filt.str)

InsideInclusive(loc, r) ==
    /\ r.lowLong <= loc[1] /\ loc[1] <= r.upLong
    /\ r.lowLat <= loc[2] /\ loc[2] <= r.upLat

\* C15: LocationFilter.apply with a valid rectangle returns exactly the
\* calls of data whose source or destination location lies inside the
\* rectangle, its boundary included.
C15_LocationExact ==
    (filt.op = "location" /\ ValidLocationString(filt.str)) =>
        /\ filt.status = "returned"
        /\ filt.result =
               SelectSeq(filt.data,
                   LAMBDA c :
                       \/ InsideInclusive(c.src_loc, Rectangle(filt.str))
                       \/ InsideInclusive(c.dst_loc, Rectangle(filt.str)))

NumbersOf(id) ==
    UNION {Customers[i].numbers :
               i \in {j \in 1..Len(Customers) : Customers[j].id = id}}

\* C16: CustomerFilter.apply with a valid customer ID returns exactly the
\* calls of data whose source or destination number belongs to that
\* customer; when the customer has no call in data, the result has no
\* call of another customer.
C16_CustomerExact ==
    (filt.op = "customer" /\ ValidCustomerString(filt.str)) =>
        /\ filt.status = "returned"
        /\ filt.result =
               SelectSeq(filt.data,
                   LAMBDA c :
                       \/ c.src_number \in NumbersOf(DigitsValue(filt.str))
                       \/ c.dst_number \in NumbersOf(DigitsValue(filt.str)))

====
